---------------------------- MODULE Spec2Model ----------------------------
(***************************************************************************)
(* The tree-traversal simulator of pennylane/devices/qubit/tree_simulate.py *)
(* as a state machine: the explicit-stack depth-first loop of              *)
(* tree_simulate, with branch_state, get_final_state, measure_final_state   *)
(* and simulate as collaborators whose answers are inputs.                  *)
(*                                                                         *)
(* Numbers.  A norm is an integer amplitude a standing for a / NormOne, a   *)
(* probability p stands for p / NormOne^2, and a value combined at depth d  *)
(* of a tree with n branch nodes stands for v / NormOne^(2*(n-d+1)).        *)
(* A quantum state is the term of the operations that produced it.          *)
(* Python's None is the record None; every other value is a record with a  *)
(* field of its own, so that "x is None" is the comparison x = None.        *)
(***************************************************************************)
EXTENDS Integers, Sequences, FiniteSets, TLC

\* ------------------------------------------------------------------ bounds
MaxNodes == 3
MaxKraus == 2
MaxTree == 14
MaxMcm == 1
MaxVaried == 6
MaxGates == 2

\* ------------------------------------------------------------------ values
None == [none |-> TRUE]
Float(p) == [float |-> p]
Num(v) == [num |-> v]
Vec(v) == [vec |-> v]
Tuple(s) == [tuple |-> s]
IntVal(v) == [int |-> v]

\* Amplitudes the collapse of a state can have: 0, 3/5, 4/5 and 1.
AmpValues == {0, 3, 4, 5}
NormOne == CHOOSE a \in AmpValues : \A b \in AmpValues : b <= a

\* The tolerance, on the scale of the amplitudes: the amplitude 1/5 stands for 1e-10,
\* strictly between 0 and the smallest positive amplitude of AmpValues. ProbTol is the
\* same tolerance on the scale of the probabilities, and WeakAmp an amplitude above
\* the tolerance whose square is below it, as 1e-6 is for 1e-10.
NORM_TOL == 1
ProbTol == NORM_TOL * NormOne
WeakAmp == 2

\* The float that is not a number, and float arithmetic with it: any operation on it
\* gives it back, and any comparison with it is false. No other value is negative.
NaN == -1
IsNaN(x) == x = NaN
Mul(a, b) == IF IsNaN(a) \/ IsNaN(b) THEN NaN ELSE a * b
Add(a, b) == IF IsNaN(a) \/ IsNaN(b) THEN NaN ELSE a + b

RECURSIVE SumOver(_, _)
SumOver(f, S) ==
    IF S = {} THEN 0
    ELSE LET x == CHOOSE y \in S : TRUE IN f[x] + SumOver(f, S \ {x})

RECURSIVE ProdSeq(_)
ProdSeq(s) == IF s = <<>> THEN 1 ELSE Head(s) * ProdSeq(Tail(s))

\* ------------------------------------------------------------------ circuit
\* The Kraus count of a mid-circuit measurement (its projectors). MidMeasureMP lies
\* outside tree_simulate.py; the count follows the specification's BranchNode, a node
\* of k >= 2 outcomes with an optional forced outcome and a value offset.
McmNumKraus == 2

\* A channel declares num_kraus Kraus matrices; a channel that declares none is an input
\* as well.
\* A weak channel has a first Kraus matrix of small weight, such as the error of a
\* BitFlip of probability 1e-12: applied to any state it leaves a norm above the
\* tolerance whose square is below it.
ChannelNodes ==
    { [kind |-> "Channel", postselect |-> None, num_kraus |-> k, weak |-> FALSE] :
        k \in 0..MaxKraus }
    \cup { [kind |-> "Channel", postselect |-> None, num_kraus |-> k, weak |-> TRUE] :
             k \in 1..MaxKraus }
McmNodes ==
    { [kind |-> "MidMeasureMP", postselect |-> ps, num_kraus |-> McmNumKraus] :
        ps \in {None, IntVal(0), IntVal(1)} }
NodeChoices == ChannelNodes \cup McmNodes

ExpectationMP == "ExpectationMP"
ProbabilityMP == "ProbabilityMP"
VarianceMP == "VarianceMP"
MeasurementChoices ==
    { <<ExpectationMP>>, <<ProbabilityMP>>, <<VarianceMP>>,
      <<ExpectationMP, ProbabilityMP>>, <<ExpectationMP, VarianceMP>> }

IsMcm(node) == node # None /\ node.kind = "MidMeasureMP"
IsPostselected(node) == IsMcm(node) /\ node.postselect # None
IsWeak(node) == node # None /\ node.kind = "Channel" /\ node.weak

\* ------------------------------------------------------------------ state
\* A local that will hold a list, before the statement that assigns it.
NoList == <<>>

VARIABLES
    circuit,          \* the script handed to tree_simulate
    pc,               \* position in tree_simulate
    nodes,            \* [None] + the channels of the circuit
    circuits,         \* the segments
    stack,            \* the TreeTraversalStack
    depth,
    branch_current,
    initial_state,
    prob,
    state,
    measurements,     \* the value of the last combination or leaf measurement
    result,           \* the value returned, None before the return
    error,            \* the exception raised, None if none
    calls             \* history: the calls made so far, with what they returned

vars == <<circuit, pc, nodes, circuits, stack, depth, branch_current,
          initial_state, prob, state, measurements, result, error, calls>>

\* ------------------------------------------------------------------ circuit structure
Gate(j) == [kind |-> "Gate", postselect |-> None, num_kraus |-> 0, id |-> j]
IsChannel(op) == op.kind \in {"Channel", "MidMeasureMP"}
IsStatePrep(op) == op.kind = "StatePrep"

QuantumScript(ops, ms) == [operations |-> ops, measurements |-> ms]

\* [op for op in circuit.operations if isinstance(op, Channel)], 1-indexed
RECURSIVE ChannelsOf(_)
ChannelsOf(ops) ==
    IF ops = <<>> THEN <<>>
    ELSE IF IsChannel(Head(ops)) THEN <<Head(ops)>> \o ChannelsOf(Tail(ops))
    ELSE ChannelsOf(Tail(ops))

\* nodes = [None] + channels, indexed from 0 as in the source
NodesOf(c) ==
    LET ch == ChannelsOf(c.operations)
    IN [d \in 0..Len(ch) |-> IF d = 0 THEN None ELSE ch[d]]

n_nodes == Cardinality(DOMAIN nodes) - 1
terminal_measurements == circuits[n_nodes].measurements

mcm_nodes == { i \in DOMAIN nodes : IsMcm(nodes[i]) }
mcm_value_modifiers ==
    [i \in mcm_nodes |-> IF nodes[i].postselect # None THEN nodes[i].postselect.int ELSE 0]
\* The outcome indices alone, without the offset of a forced outcome.
cast_to_branch_indices(bc) == [i \in mcm_nodes |-> bc[i]]

\* lines 148-151
cast_to_mid_measurements(bc) == [i \in mcm_nodes |-> bc[i] + mcm_value_modifiers[i]]

\* split_circuit_at_nodes: the positions of the channels cut the operations
ChannelPositions(ops) == { i \in 1..Len(ops) : IsChannel(ops[i]) }
RECURSIVE SplitFrom(_, _, _)
SplitFrom(c, first, rest) ==
    IF rest = {} THEN
        << QuantumScript(SubSeq(c.operations, first, Len(c.operations)), c.measurements) >>
    ELSE LET last == CHOOSE i \in rest : \A j \in rest : i <= j
         IN << QuantumScript(SubSeq(c.operations, first, last - 1), <<>>) >>
            \o SplitFrom(c, last + 1, rest \ {last})
\* The split that leaves each channel at the head of the segment after it.
split_keeping_nodes(c) ==
    LET ops == c.operations
        pos == ChannelPositions(ops)
        cut == [d \in 0..Cardinality(pos) |->
                  IF d = 0 THEN 0
                  ELSE CHOOSE i \in pos : Cardinality({ j \in pos : j <= i }) = d]
    IN [d \in 0..Cardinality(pos) |->
          QuantumScript(
              SubSeq(ops, IF d = 0 THEN 1 ELSE cut[d],
                     IF d = Cardinality(pos) THEN Len(ops) ELSE cut[d + 1] - 1),
              IF d = Cardinality(pos) THEN c.measurements ELSE <<>>)]

split_circuit_at_nodes(c) ==
    LET segs == SplitFrom(c, 1, ChannelPositions(c.operations))
    IN [d \in 0..(Len(segs) - 1) |-> segs[d + 1]]

\* create_initial_state(wires, None)
ZeroState == [zero |-> TRUE]
StatePrep(st, w) == [kind |-> "StatePrep", postselect |-> None, num_kraus |-> 0,
                     state |-> st, width |-> w]

\* A preparation put in front of every circuit, whatever it starts with.
prepend_state_prep_always(c, st, wires) ==
    QuantumScript(<<StatePrep(IF st = None THEN ZeroState ELSE st, wires)>> \o c.operations,
                  c.measurements)

\* lines 272-292
prepend_state_prep(c, st, wires) ==
    LET has_prep == Len(c.operations) > 0 /\ IsStatePrep(c.operations[1])
    IN IF has_prep /\ c.operations[1].width = wires THEN c
       ELSE LET st1 == IF has_prep THEN [extended |-> c.operations[1].state] ELSE st
                st2 == IF st1 = None THEN ZeroState ELSE st1
                rest == IF has_prep THEN Tail(c.operations) ELSE c.operations
            IN QuantumScript(<<StatePrep(st2, wires)>> \o rest, c.measurements)

\* ------------------------------------------------------------------ TreeTraversalStack
\* A Python list of k entries, indexed from 0; List wraps one where None is an alternative.
Nones(k) == [i \in 0..(k - 1) |-> None]
List(f) == [list |-> f]

NKrausOf(nds) == [d \in DOMAIN nds |-> IF d = 0 THEN None ELSE nds[d].num_kraus]
n_kraus == NKrausOf(nodes)

\* The stack keeping a state of its own at depth 0 as well.
TreeTraversalStackStatesRoot(max_depth) ==
    [d \in 0..(max_depth - 1) |-> IF d = 0 THEN ZeroState ELSE None]

TreeTraversalStackStates(max_depth) == [d \in 0..(max_depth - 1) |-> None]

TreeTraversalStack(max_depth, n_branches) ==
    [ n_branches |-> n_branches,
      probs      |-> [d \in 0..(max_depth - 1) |-> None],
      results    |-> [d \in 0..(max_depth - 1) |->
                        IF d = 0 THEN Nones(1) ELSE Nones(n_branches[d])],
      states     |-> TreeTraversalStackStates(max_depth) ]

any_is_empty(stk, d) == \E i \in DOMAIN stk.results[d] : stk.results[d][i] = None
is_full(stk, d) == \A i \in DOMAIN stk.results[d] : stk.results[d][i] # None

\* A prune that leaves the results of the level in place.
prune_keeping_results(stk, d) ==
    [stk EXCEPT !.probs[d] = None,
                !.states[d] = None]

\* A prune that leaves the probabilities of the level in place.
prune_keeping_probs(stk, d) ==
    [stk EXCEPT !.results[d] = Nones(stk.n_branches[d]),
                !.states[d] = None]

\* A prune that leaves the state of the level in place.
prune_keeping_state(stk, d) ==
    [stk EXCEPT !.probs[d] = None,
                !.results[d] = Nones(stk.n_branches[d])]

\* lines 71-75
prune(stk, d) ==
    [stk EXCEPT !.probs[d] = None,
                !.results[d] = Nones(stk.n_branches[d]),
                !.states[d] = None]

\* ------------------------------------------------------------------ states
\* The outcome path along which a state was reached: the indices of its collapses.
RECURSIVE PathOf(_)
PathOf(st) ==
    IF "final" \in DOMAIN st THEN PathOf(st.final[1].state)
    ELSE IF "normalized" \in DOMAIN st THEN PathOf(st.normalized)
    ELSE IF "collapsed" \in DOMAIN st THEN Append(PathOf(st.collapsed), st.index)
    ELSE <<>>

\* The state the circuit started from, under the operations applied since.
RECURSIVE RootState(_)
RootState(st) ==
    IF "final" \in DOMAIN st THEN RootState(st.final[1].state)
    ELSE IF "normalized" \in DOMAIN st THEN RootState(st.normalized)
    ELSE IF "collapsed" \in DOMAIN st THEN RootState(st.collapsed)
    ELSE IF "extended" \in DOMAIN st THEN RootState(st.extended)
    ELSE st
\* Amplitudes that are not numbers stay so under every operation.
HasNaN(st) == "nan" \in DOMAIN RootState(st)

\* The norms the state has under the Kraus matrices of the channel that follows it.
AllZero(t) == \A i \in DOMAIN t : t[i] = 0
SumSq(t) == SumOver([i \in DOMAIN t |-> t[i] * t[i]], DOMAIN t)
AmpProfiles(k) ==
    { t \in [0..(k - 1) -> AmpValues] :
        /\ AllZero(t) \/ SumSq(t) = NormOne * NormOne
        /\ \A i, j \in DOMAIN t : (i < j /\ t[i] # 0 /\ t[j] # 0) => t[i] < t[j] }
\* The norms any state has under the Kraus matrices of a weak channel.
WeakProfile(k) ==
    [i \in 0..(k - 1) |-> IF i = 0 THEN WeakAmp ELSE IF i = k - 1 THEN NormOne ELSE 0]
\* The norms of a state whose amplitudes are not numbers.
NaNProfile(k) == [i \in 0..(k - 1) |-> NaN]

\* ------------------------------------------------------------------ branch_state
\* A tolerance that is too coarse: it also cuts the amplitude 3/5.
BelowNormTolCoarse(norm) == norm < 4

\* The tolerance applied to the squared norm, as a probability.
BelowProbTol(norm) == ~ IsNaN(norm) /\ norm * norm < ProbTol

\* line 315: norm < NORM_TOL
BelowNormTol(norm) == ~ IsNaN(norm) /\ norm < NORM_TOL

\* A collapse that reports the norm where the probability is due.
branch_state_norm(st, op, index) ==
    LET applied == [collapsed |-> st, op |-> op, index |-> index]
        norm == st.norms[index]
    IN IF BelowNormTol(norm) THEN [state |-> applied, prob |-> 0]
       ELSE LET norm1 == IF IsMcm(op) /\ op.postselect # None THEN NormOne ELSE norm
            IN [state |-> [normalized |-> applied], prob |-> norm1]

branch_state(st, op, index) ==
    LET applied == [collapsed |-> st, op |-> op, index |-> index]
        norm == st.norms[index]
    IN IF BelowNormTol(norm) THEN [state |-> applied, prob |-> 0]
       ELSE LET norm1 == IF IsMcm(op) /\ op.postselect # None THEN NormOne ELSE norm
            IN [state |-> [normalized |-> applied], prob |-> Mul(norm1, norm1)]

\* ------------------------------------------------------------------ combine_measurements
TypeError(what) == [exception |-> "TypeError", message |-> what]
ValueError(what) == [exception |-> "ValueError", message |-> what]
IsError(x) == "exception" \in DOMAIN x

\* [x for x in lst if keep(x)], lst a 0-indexed list of length k
RECURSIVE NotNone(_, _)
NotNone(lst, k) ==
    IF k = 0 THEN <<>>
    ELSE NotNone(lst, k - 1) \o (IF lst[k - 1] # None THEN <<lst[k - 1]>> ELSE <<>>)
ListLen(lst) == Cardinality(DOMAIN lst)

RECURSIVE Dot(_, _)
Dot(ps, rs) ==
    IF ps = <<>> THEN 0
    ELSE Add(Mul(Head(ps).float, Head(rs).num), Dot(Tail(ps), Tail(rs)))

RECURSIVE DotVec(_, _, _)
DotVec(ps, rs, w) ==
    IF ps = <<>> THEN [j \in 1..w |-> 0]
    ELSE LET r == DotVec(Tail(ps), Tail(rs), w)
         IN [j \in 1..w |-> Add(Mul(Head(ps).float, Head(rs).vec[j]), r[j])]

\* A combiner with a rule for every kind: an unknown kind is combined as a weighted sum.
RECURSIVE DotAny(_, _)
DotAny(ps, rs) ==
    IF ps = <<>> \/ rs = <<>> THEN 0 ELSE Head(ps).float * Head(rs).num + DotAny(Tail(ps), Tail(rs))
combine_measurements_core_lenient(original_measurement, probs, results) ==
    IF original_measurement = ProbabilityMP THEN
        IF results = <<>> THEN ValueError("need at least one array to stack")
        ELSE IF Len(probs) # Len(results) THEN ValueError("shapes not aligned")
        ELSE Vec(DotVec(probs, results, Len(Head(results).vec)))
    ELSE IF Len(probs) # Len(results) THEN ValueError("shapes not aligned")
    ELSE Num(DotAny(probs, results))

\* The combination with the probabilities left out: the results are summed unweighted.
RECURSIVE SumNum(_)
SumNum(rs) == IF rs = <<>> THEN 0 ELSE Head(rs).num + SumNum(Tail(rs))
combine_measurements_core_unweighted(original_measurement, probs, results) ==
    IF original_measurement = ExpectationMP THEN Num(SumNum(results))
    ELSE IF original_measurement = ProbabilityMP THEN
        IF results = <<>> THEN ValueError("need at least one array to stack")
        ELSE Vec(DotVec([i \in 1..Len(results) |-> Float(1)], results, Len(Head(results).vec)))
    ELSE TypeError(original_measurement)

combine_measurements_core(original_measurement, probs, results) ==
    IF original_measurement = ExpectationMP THEN
        IF Len(probs) # Len(results) THEN ValueError("shapes not aligned")
        ELSE Num(Dot(probs, results))
    ELSE IF original_measurement = ProbabilityMP THEN
        IF results = <<>> THEN ValueError("need at least one array to stack")
        ELSE IF Len(probs) # Len(results) THEN ValueError("shapes not aligned")
        ELSE Vec(DotVec(probs, results, Len(Head(results).vec)))
    ELSE TypeError(original_measurement)

\* The i-th entries of the result tuples that are not None, in outcome order.
ResultsAt(all_results, i) ==
    LET col == [b \in DOMAIN all_results |-> all_results[b].tuple[i]]
    IN NotNone(col, ListLen(col))

combine_measurements(tm, stk, d) ==
    LET all_probs == stk.probs[d]
        all_results == stk.results[d]
        comb == [i \in 1..Len(tm) |->
                   IF \E b \in DOMAIN all_results : all_results[b] = None
                   THEN TypeError("'NoneType' object is not subscriptable")
                   ELSE IF all_probs = None
                   THEN TypeError("'NoneType' object is not iterable")
                   ELSE combine_measurements_core(
                            tm[i], NotNone(all_probs.list, ListLen(all_probs.list)),
                            ResultsAt(all_results, i))]
        bad == { i \in 1..Len(tm) : IsError(comb[i]) }
    IN IF bad = {} THEN Tuple(comb)
       ELSE comb[CHOOSE i \in bad : \A j \in bad : i <= j]

\* ------------------------------------------------------------------ inputs
\* A circuit with the given channels: g gates in every segment, after an optional
\* state preparation on all ("full") or on some ("partial") of the wires.
Gates(j, g) == [i \in 1..g |-> Gate(g * j + i - 1)]
RECURSIVE Interleave(_, _, _)
Interleave(chs, j, g) ==
    Gates(j, g) \o (IF chs = <<>> THEN <<>>
                    ELSE <<Head(chs)>> \o Interleave(Tail(chs), j + 1, g))

\* The user may head the circuit with a state preparation of their own: on some of
\* the wires, or on all of them with amplitudes that are not numbers.
PrepChoices == {"none", "partial", "nan"}
UserPrep(w) ==
    IF w = "none" THEN <<>>
    ELSE IF w = "nan" THEN <<StatePrep([user |-> TRUE, nan |-> TRUE], "full")>>
    ELSE <<StatePrep([user |-> TRUE], w)>>

\* The number of outcomes in the tree of a circuit whose channels have ks[d] Kraus
\* matrices: the sum over the depths of the number of paths of that depth.
TreeSize(ks) == SumOver([d \in 1..Len(ks) |-> ProdSeq(SubSeq(ks, 1, d))], 1..Len(ks))
NodeSeqs ==
    { c \in UNION { [1..n -> NodeChoices] : n \in 0..MaxNodes } :
        /\ TreeSize([d \in 1..Len(c) |-> c[d].num_kraus]) <= MaxTree
        /\ Cardinality({ d \in 1..Len(c) : IsMcm(c[d]) }) <= MaxMcm }
\* The inputs vary one feature at a time from the plain circuit, which has channels
\* only, no state preparation and one expectation value: the measured kinds, the
\* state preparation, up to MaxMcm mid-circuit measurements among the channels,
\* channels without a Kraus matrix, weak channels, the number of gates of a segment, or
\* a state preparation in the middle of the circuit.
\* A circuit that varies a feature has a tree of at most MaxVaried outcomes.
\* A state preparation may also head the segment after the first channel.
MidPrepChoices == {"none", "partial", "full"}
MidPrep(m) == IF m = "none" THEN <<>> ELSE <<StatePrep([user |-> TRUE, mid |-> TRUE], m)>>
Operations(w, chs, g, m) ==
    UserPrep(w)
    \o (IF chs = <<>> THEN Interleave(chs, 0, g)
        ELSE Gates(0, g) \o <<Head(chs)>> \o MidPrep(m) \o Interleave(Tail(chs), 1, g))

IsPlain(w, chs, ms, g, m) ==
    LET varied == { f \in {"prep", "mcm", "measurements", "zero", "weak", "gates",
                           "midprep"} :
                      \/ f = "midprep" /\ m # "none"
                      \/ f = "gates" /\ g # 1
                      \/ f = "weak" /\ \E d \in 1..Len(chs) : IsWeak(chs[d])
                      \/ f = "prep" /\ w # "none"
                      \/ f = "zero" /\ \E d \in 1..Len(chs) : chs[d].num_kraus = 0
                      \/ f = "mcm" /\ \E d \in 1..Len(chs) : IsMcm(chs[d])
                      \/ f = "measurements" /\ ms # <<ExpectationMP>> }
    IN \/ varied = {}
       \/ /\ Cardinality(varied) = 1
          /\ TreeSize([d \in 1..Len(chs) |-> chs[d].num_kraus]) <= MaxVaried
CircuitChoices ==
    { QuantumScript(Operations(x[1], x[2], x[4], x[5]), x[3]) :
        x \in { y \in PrepChoices \X NodeSeqs \X MeasurementChoices \X (0..MaxGates)
                        \X MidPrepChoices :
                  IsPlain(y[1], y[2], y[3], y[4], y[5]) } }

\* ------------------------------------------------------------------ history
Path(bc, d) == [i \in 1..d |-> bc[i]]
Call(fn, path, ret) == [fn |-> fn, path |-> path, ret |-> ret]
Raised(fn) == [exception |-> "CollaboratorError", message |-> fn]

\* ------------------------------------------------------------------ collaborators
\* get_final_state: the state after the operations of c; norms are the norms the
\* result has under the Kraus matrices of the next channel (none after the last).
get_final_state(c, mid_measurements, norms) ==
    [final |-> c.operations, mid_measurements |-> mid_measurements, norms |-> norms]

\* The rank of an outcome path among the paths of its length, in traversal order.
RECURSIVE Rank(_)
Rank(path) ==
    IF path = <<>> THEN 0
    ELSE Rank(SubSeq(path, 1, Len(path) - 1)) * n_kraus[Len(path)] + path[Len(path)]
TotalPaths == ProdSeq([d \in 1..n_nodes |-> n_kraus[d]])

\* The value of one terminal measurement on the state reached along path: an
\* expectation value that differs from leaf to leaf, the distribution that is
\* certain of the leaf.
LeafValue(mp, path) ==
    IF mp = ProbabilityMP
    THEN Vec([j \in 1..TotalPaths |-> IF j = Rank(path) + 1 THEN 1 ELSE 0])
    ELSE Num(Rank(path) + 1)
\* The value measured on a state whose amplitudes are not numbers.
NaNValue(mp) ==
    IF mp = ProbabilityMP THEN Vec([j \in 1..TotalPaths |-> NaN]) ELSE Num(NaN)

\* measure_final_state: one value for a single measurement, else a tuple
measure_final_state(c, st) ==
    LET values == [i \in 1..Len(c.measurements) |->
                     IF HasNaN(st) THEN NaNValue(c.measurements[i])
                     ELSE LeafValue(c.measurements[i], PathOf(st))]
    IN IF Len(c.measurements) = 1 THEN values[1] ELSE Tuple(values)

simulate(c) == [simulate |-> c]

\* ------------------------------------------------------------------ tree_simulate
\* The test of line 116 without the None that heads nodes.
IsTrivialNoSentinel(nds) == Cardinality(DOMAIN nds) = 0

\* line 116: len(nodes) == 1
IsTrivial(nds) == Cardinality(DOMAIN nds) = 1

\* The test of line 184 never succeeding: no branch is pruned.
IsZeroProbNever(p) == FALSE

\* Every outcome taken for one of probability zero.
IsZeroProbAlways(p) == p = p

\* line 184: prob == 0.0
IsZeroProb(p) == p = 0

\* The step to the next outcome lost: the branch index stays where it is.
NextBranchStuck(b, k) == b % k

\* A step that skips an outcome.
NextBranchSkipping(b, k) == (b + 2) % k

\* lines 170, 190, 210: (branch_current[depth] + 1) % n_kraus[depth]
NextBranch(b, k) == (b + 1) % k

Init ==
    /\ circuit \in CircuitChoices
    /\ pc = "entry"
    /\ nodes = NoList
    /\ circuits = NoList
    /\ stack = None
    /\ depth = 0
    /\ branch_current = NoList
    /\ initial_state = None
    /\ prob = None
    /\ state = None
    /\ measurements = None
    /\ result = None
    /\ error = None
    /\ calls = <<>>

\* An exception caught and dropped: the driver carries on from where it was.
RaiseSwallowed(e) ==
    /\ pc' = pc
    /\ error' = error

\* An exception leaves tree_simulate: nothing in it catches one.
Raise(e) ==
    /\ pc' = "raised"
    /\ error' = e

\* lines 115-117: no channel, the circuit is simulated directly
Trivial ==
    /\ pc = "entry"
    /\ IsTrivial(NodesOf(circuit))
    /\ nodes' = NodesOf(circuit)
    /\ result' = simulate(circuit)
    /\ pc' = "returned"
    /\ calls' = Append(calls, Call("simulate", <<>>, None))
    /\ UNCHANGED <<measurements, circuit, circuits, stack, depth, branch_current,
                   initial_state, prob, state, error>>

TrivialRaises ==
    /\ pc = "entry"
    /\ IsTrivial(NodesOf(circuit))
    /\ nodes' = NodesOf(circuit)
    /\ Raise(Raised("simulate"))
    /\ calls' = Append(calls, Call("simulate", <<>>, Raised("simulate")))
    /\ UNCHANGED <<measurements, circuit, circuits, stack, depth, branch_current,
                   initial_state, prob, state, result>>

\* lines 115-146: parse the nodes, split the circuit, build the stack
Setup ==
    /\ pc = "entry"
    /\ ~ IsTrivial(NodesOf(circuit))
    /\ LET nds == NodesOf(circuit)
           n == Cardinality(DOMAIN nds) - 1
           segs == split_circuit_at_nodes(circuit)
       IN /\ nodes' = nds
          /\ branch_current' = [d \in 0..n |-> 0]
          /\ circuits' = [segs EXCEPT ![0] = prepend_state_prep(segs[0], None, "full")]
          /\ stack' = TreeTraversalStack(n + 1, NKrausOf(nds))
    /\ depth' = 0
    /\ pc' = "while"
    /\ calls' = calls \o << Call("split_circuit_at_nodes", <<>>, None),
                            Call("TreeTraversalStack", <<>>, None) >>
    /\ UNCHANGED <<measurements, circuit, initial_state, prob, state, result, error>>

\* A combiner that consumes what it combines.
combine_measurements_consuming(stk, d) == prune(stk, d)

\* lines 324-336: the stack as the body of combine_measurements leaves it. It reads
\* stack.probs[depth] and stack.results[depth] into lists of its own and assigns to
\* nothing of the stack.
combine_measurements_stack(stk, d) == stk

\* line 153 false, then lines 233-234
Finalize ==
    /\ pc = "while"
    /\ ~ any_is_empty(stack, 1)
    /\ LET results == combine_measurements(terminal_measurements, stack, 1)
       IN /\ IF IsError(results)
             THEN Raise(results) /\ UNCHANGED result
             ELSE pc' = "returned" /\ result' = results /\ UNCHANGED error
          /\ calls' = Append(calls, Call("combine_measurements", <<>>, results))
    /\ stack' = combine_measurements_stack(stack, 1)
    /\ UNCHANGED <<measurements, circuit, nodes, circuits, depth, branch_current,
                   initial_state, prob, state>>

\* lines 160-162: the level is complete, combine it
Combine ==
    /\ pc = "while"
    /\ any_is_empty(stack, 1)
    /\ is_full(stack, depth)
    /\ LET combined == combine_measurements(terminal_measurements, stack, depth)
       IN /\ IF IsError(combined)
             THEN Raise(combined) /\ UNCHANGED measurements
             ELSE pc' = "combined" /\ measurements' = combined /\ UNCHANGED error
          /\ calls' = Append(calls, Call("combine_measurements",
                                         Path(branch_current, depth - 1), combined))
    /\ stack' = combine_measurements_stack(stack, depth)
    /\ UNCHANGED <<circuit, nodes, circuits, depth, branch_current, initial_state, prob,
                   state, result>>

\* The combination stored at the branch index already advanced.
store_after_advance(stk, bc, d, m) ==
    [prune(stk, d) EXCEPT !.results[d - 1][NextBranch(bc[d - 1], stk.n_branches[d - 1])] = m]

\* lines 165-169: clear level d, then store the combination one level up
store_combined(stk, bc, d, m) ==
    [prune(stk, d) EXCEPT !.results[d - 1][bc[d - 1]] = m]

\* lines 164-171: reset the level, store the combination one level up and step up
StepUp ==
    /\ pc = "combined"
    /\ LET bc0 == [d \in DOMAIN branch_current |->
                     IF d >= depth THEN 0 ELSE branch_current[d]]
           up == depth - 1
           stored == store_combined(stack, bc0, depth, measurements)
       IN /\ stack' = stored
          /\ depth' = up
          /\ IF up = 0
             THEN /\ Raise(TypeError("unsupported operand type(s) for %"))
                  /\ branch_current' = bc0
             ELSE /\ branch_current' = [bc0 EXCEPT ![up] = NextBranch(bc0[up], n_kraus[up])]
                  /\ pc' = "while"
                  /\ UNCHANGED error
    /\ UNCHANGED <<measurements, circuit, nodes, circuits, initial_state, prob, state,
                   result, calls>>

\* lines 178-179: the root needs no collapse
Root ==
    /\ pc = "while"
    /\ any_is_empty(stack, 1)
    /\ ~ is_full(stack, depth)
    /\ depth = 0
    /\ initial_state' = stack.states[0]
    /\ pc' = "get_final_state"
    /\ UNCHANGED <<measurements, circuit, nodes, circuits, stack, depth, branch_current,
                   prob, state, result, error, calls>>

\* A collapse worked in the array it was handed: the stored state becomes the
\* collapsed one.
branch_state_in_place(st, op, index) ==
    [st EXCEPT !.norms = [i \in DOMAIN st.norms |-> IF i = index THEN NormOne ELSE 0]]

\* lines 311-318: the array handed to branch_state, as the call leaves it. Line 312
\* binds the local name to the array apply_operation builds, and line 318 divides that
\* array, so the caller's array is not written.
branch_state_input(st, op, index) == st

\* lines 181-192: collapse the stored state on the current branch
Branch ==
    /\ pc = "while"
    /\ any_is_empty(stack, 1)
    /\ ~ is_full(stack, depth)
    /\ depth # 0
    /\ LET b == branch_current[depth]
           r == branch_state(stack.states[depth], nodes[depth], b)
           stk == [stack EXCEPT !.states[depth] =
                      branch_state_input(stack.states[depth], nodes[depth], b)]
       IN /\ initial_state' = r.state
          /\ prob' = Float(r.prob)
          /\ calls' = Append(calls, Call("branch_state", Path(branch_current, depth),
                                         Float(r.prob)))
          /\ IF IsZeroProb(r.prob)
             THEN /\ stack' = [stk EXCEPT !.results[depth][b] =
                                  Tuple([i \in 1..Len(terminal_measurements) |-> None])]
                  /\ branch_current' =
                       [branch_current EXCEPT ![depth] = NextBranch(b, n_kraus[depth])]
                  /\ pc' = "while"
                  /\ UNCHANGED error
             ELSE IF stack.probs[depth] = None
             THEN /\ Raise(TypeError("'NoneType' object does not support item assignment"))
                  /\ stack' = stk
                  /\ UNCHANGED branch_current
             ELSE /\ stack' = [stk EXCEPT !.probs[depth].list[b] = Float(r.prob)]
                  /\ pc' = "get_final_state"
                  /\ UNCHANGED <<error, branch_current>>
    /\ UNCHANGED <<measurements, circuit, nodes, circuits, depth, state, result>>

BranchRaises ==
    /\ pc = "while"
    /\ any_is_empty(stack, 1)
    /\ ~ is_full(stack, depth)
    /\ depth # 0
    /\ Raise(Raised("branch_state"))
    /\ calls' = Append(calls, Call("branch_state", Path(branch_current, depth),
                                   Raised("branch_state")))
    /\ UNCHANGED <<measurements, circuit, nodes, circuits, stack, depth, branch_current,
                   initial_state, prob, state, result>>

\* lines 194-195
circtmp ==
    prepend_state_prep(
        QuantumScript(circuits[depth].operations, circuits[depth].measurements),
        initial_state, "full")

\* lines 196-198: simulate the segment of the current depth
GetFinalState ==
    /\ pc = "get_final_state"
    /\ \E norms \in LET k == IF depth = n_nodes THEN 0 ELSE n_kraus[depth + 1]
                     IN IF HasNaN(circtmp.operations[1].state) THEN {NaNProfile(k)}
                        ELSE IF depth # n_nodes /\ IsWeak(nodes[depth + 1])
                        THEN {WeakProfile(k)}
                        ELSE AmpProfiles(k) :
         state' = get_final_state(circtmp, cast_to_mid_measurements(branch_current), norms)
    /\ pc' = "simulated"
    /\ calls' = Append(calls, Call("get_final_state", Path(branch_current, depth),
                                   [norms |-> state'.norms]))
    /\ UNCHANGED <<measurements, circuit, nodes, circuits, stack, depth, branch_current,
                   initial_state, prob, result, error>>

GetFinalStateRaises ==
    /\ pc = "get_final_state"
    /\ Raise(Raised("get_final_state"))
    /\ calls' = Append(calls, Call("get_final_state", Path(branch_current, depth),
                                   Raised("get_final_state")))
    /\ UNCHANGED <<measurements, circuit, nodes, circuits, stack, depth, branch_current,
                   initial_state, prob, state, result>>

\* lines 204-211: a leaf, evaluate the terminal measurements and step sideways
Leaf ==
    /\ pc = "simulated"
    /\ depth = n_nodes
    /\ LET returned == measure_final_state(circtmp, state)
           wrapped == IF Len(terminal_measurements) = 1
                      THEN Tuple(<<returned>>) ELSE returned
           b == branch_current[depth]
       IN /\ measurements' = wrapped
          /\ stack' = [stack EXCEPT !.results[depth][b] = wrapped]
          /\ branch_current' = [branch_current EXCEPT ![depth] = NextBranch(b, n_kraus[depth])]
          /\ calls' = Append(calls, Call("measure_final_state",
                                         Path(branch_current, depth), wrapped))
    /\ pc' = "while"
    /\ UNCHANGED <<circuit, nodes, circuits, depth, initial_state, prob, state,
                   result, error>>

LeafRaises ==
    /\ pc = "simulated"
    /\ depth = n_nodes
    /\ Raise(Raised("measure_final_state"))
    /\ calls' = Append(calls, Call("measure_final_state", Path(branch_current, depth),
                                   Raised("measure_final_state")))
    /\ UNCHANGED <<measurements, circuit, nodes, circuits, stack, depth, branch_current,
                   initial_state, prob, state, result>>

\* lines 218-227: not a leaf, keep the state and step down
Descend ==
    /\ pc = "simulated"
    /\ depth # n_nodes
    /\ LET down == depth + 1
           stk == IF stack.probs[down] = None
                  THEN [stack EXCEPT !.probs[down] = List(Nones(n_kraus[down]))]
                  ELSE stack
       IN /\ depth' = down
          /\ stack' = [stk EXCEPT !.states[down] = state]
    /\ pc' = "while"
    /\ UNCHANGED <<measurements, circuit, nodes, circuits, branch_current, initial_state, prob, state,
                   result, error, calls>>

Next ==
    \/ Trivial
    \/ TrivialRaises
    \/ Setup
    \/ Finalize
    \/ Combine
    \/ StepUp
    \/ Root
    \/ Branch
    \/ BranchRaises
    \/ GetFinalState
    \/ GetFinalStateRaises
    \/ Leaf
    \/ LeafRaises
    \/ Descend

Spec == Init /\ [][Next]_vars

\* ------------------------------------------------------------------ reading the history
CallsOf(fn) == { i \in 1..Len(calls) : calls[i].fn = fn }
Returned(i) == ~ IsError(calls[i].ret)
IsPrefix(p, q) == Len(p) <= Len(q) /\ SubSeq(q, 1, Len(p)) = p
TreeRun == stack # None
Final == {"returned", "raised"}
\* A segment below the root starts with a state preparation of the circuit's own.
MidPrepRun == TreeRun /\ \E d \in 1..n_nodes :
                 Len(circuits[d].operations) > 0 /\ IsStatePrep(circuits[d].operations[1])
\* The run started from a state whose amplitudes are not numbers.
NaNRun == TreeRun /\ HasNaN(circuits[0].operations[1].state)

KMax == CHOOSE k \in { n_kraus[d] : d \in 1..n_nodes } :
            \A d \in 1..n_nodes : n_kraus[d] <= k
FullPaths == { p \in [1..n_nodes -> 0..(KMax - 1)] : \A d \in 1..n_nodes : p[d] < n_kraus[d] }
PrunedMarker == Tuple([i \in 1..Len(terminal_measurements) |-> None])

\* The outcome path p has no zero-probability outcome: at each of its prefixes the
\* state simulated there has a non-zero norm under the Kraus matrix p takes next.
RECURSIVE Kept(_)
Kept(p) ==
    IF p = <<>> THEN TRUE
    ELSE LET q == SubSeq(p, 1, Len(p) - 1)
         IN /\ Kept(q)
            /\ \E i \in CallsOf("get_final_state") :
                 /\ calls[i].path = q
                 /\ Returned(i)
                 /\ calls[i].ret.norms[p[Len(p)]] # 0

\* The probability branch_state returned for the last outcome of p (0 if never asked).
CollapseProb(p) ==
    LET S == { i \in CallsOf("branch_state") : calls[i].path = p /\ Returned(i) }
    IN IF S = {} THEN 0 ELSE calls[CHOOSE i \in S : \A j \in S : i <= j].ret.float

PathWeight(p) == ProdSeq([d \in 1..Len(p) |-> CollapseProb(SubSeq(p, 1, d))])

\* The reference: every outcome path enumerated, weighted and summed by hand.
BruteForce ==
    SumOver([p \in FullPaths |->
               IF Kept(p) THEN PathWeight(p) * LeafValue(ExpectationMP, p).num ELSE 0],
            FullPaths)

\* ------------------------------------------------------------------ claims

\* C1: for a circuit with at most 3 branch nodes of at most 2 outcomes each, every
\* expectation value tree_simulate returns equals the brute-force reference: the sum
\* over all outcome paths of the product of the collapse probabilities along the path
\* times the leaf value, paths with a zero-probability outcome contributing nothing
\* (probabilities and leaf values being numbers, and no segment below the root
\* starting with a state preparation).
C1_EqualsBruteForce ==
    (/\ pc = "returned"
     /\ TreeRun
     /\ ~ NaNRun
     /\ ~ MidPrepRun
     /\ n_nodes <= 3
     /\ \A d \in 1..n_nodes : n_kraus[d] <= 2)
    => \A j \in 1..Len(terminal_measurements) :
         terminal_measurements[j] = ExpectationMP => result.tuple[j] = Num(BruteForce)

C1_Witness ==
    /\ pc = "returned"
    /\ TreeRun
    /\ n_nodes = 3
    /\ \A d \in 1..n_nodes : n_kraus[d] = 2
    /\ terminal_measurements = <<ExpectationMP>>
    /\ \E i \in CallsOf("branch_state") : calls[i].ret = Float(0)
    /\ Cardinality(CallsOf("measure_final_state")) >= 3
    /\ result.tuple[1].num > 0

\* C2: once branch_state has returned probability 0.0 for an outcome, neither
\* get_final_state nor measure_final_state is called for that branch or for any path
\* that extends it; the slot is marked pruned and the driver moves to the next outcome.
C2_PrunedNeverSimulated ==
    \A i \in CallsOf("branch_state") :
       calls[i].ret = Float(0) =>
         /\ \A j \in (i + 1)..Len(calls) :
              calls[j].fn \in {"get_final_state", "measure_final_state"}
                => ~ IsPrefix(calls[i].path, calls[j].path)
         /\ i = Len(calls) =>
              LET d == Len(calls[i].path)
                  b == calls[i].path[d]
              IN /\ pc = "while"
                 /\ depth = d
                 /\ stack.results[d][b] = PrunedMarker
                 /\ stack.probs[d].list[b] = None
                 /\ branch_current[d] = (b + 1) % n_kraus[d]

C2_Witness ==
    /\ pc = "returned"
    /\ n_nodes >= 2
    /\ \E i \in CallsOf("branch_state") :
         /\ calls[i].ret = Float(0)
         /\ Len(calls[i].path) = 1
         /\ \E j \in (i + 1)..Len(calls) : calls[j].fn = "measure_final_state"

\* C3: when tree_simulate returns, every full outcome path without a zero-probability
\* outcome has had its terminal measurements evaluated, and at no time has a path been
\* evaluated twice.
C3_LeavesOnce ==
    /\ \A i, j \in CallsOf("measure_final_state") :
         i # j => calls[i].path # calls[j].path
    /\ (pc = "returned" /\ TreeRun) =>
         \A p \in FullPaths :
            Kept(p) => \E i \in CallsOf("measure_final_state") :
                          calls[i].path = p /\ Returned(i)

C3_Witness ==
    /\ pc = "returned"
    /\ TreeRun
    /\ n_nodes = 3
    /\ Cardinality({ p \in FullPaths : Kept(p) }) >= 4
    /\ Cardinality({ p \in FullPaths : ~ Kept(p) }) >= 2

\* The states alive: the stored ones and the one being simulated.
LiveBuffers ==
    Cardinality({ d \in DOMAIN stack.states : stack.states[d] # None })
    + (IF pc \in {"get_final_state", "simulated"} THEN 1 ELSE 0)

\* C4: the stack stores at most one state per depth, and the stored states together
\* with the state being simulated never number more than n + 1, whatever the outcome
\* counts.
C4_DepthBoundedMemory ==
    TreeRun =>
        /\ DOMAIN stack.states = 0..n_nodes
        /\ LiveBuffers <= n_nodes + 1

C4_Witness ==
    /\ TreeRun
    /\ n_nodes = 3
    /\ TotalPaths = 8
    /\ pc = "simulated"
    /\ LiveBuffers = n_nodes + 1

\* C5 as stated: the loop always exits with the final combination returned unless a
\* collaborator fails, so a run that ends in an error ends in a collaborator's error.
C5_AlwaysReturns ==
    pc = "raised" => error.exception = "CollaboratorError"

\* The most calls a traversal makes: two to set up, the root segment, the final
\* combination, and three for each outcome of the tree.
CallBound == 4 + 3 * TreeSize([d \in 1..n_nodes |-> n_kraus[d]])
\* The terminal measurements the combiner has no rule for.
Unsupported == { j \in 1..Len(terminal_measurements) :
                   terminal_measurements[j] \notin {ExpectationMP, ProbabilityMP} }

\* C5, amended: for every number of branch nodes, outcome counts and pattern of pruned
\* outcomes the traversal ends within 4 + 3 * T calls, T the number of outcomes of the
\* tree: no step is ever missing before the end, and the run ends with the final
\* combination returned, with a collaborator's error, or with the combiner's error for
\* an unsupported kind or for a probability measurement with no result to stack,
\* these being the only errors when every branch node has an outcome.
C5_Terminates ==
    /\ pc \notin Final => ENABLED Next
    /\ TreeRun =>
         /\ Len(calls) <= CallBound
         /\ (pc = "raised" /\ \A d \in 1..n_nodes : n_kraus[d] >= 1) =>
              \/ error.exception = "CollaboratorError"
              \/ \E j \in Unsupported : error = TypeError(terminal_measurements[j])
              \/ /\ error = ValueError("need at least one array to stack")
                 /\ \E j \in 1..Len(terminal_measurements) :
                      terminal_measurements[j] = ProbabilityMP

C5_Witness ==
    /\ pc = "returned"
    /\ TreeRun
    /\ n_nodes = 3
    /\ TotalPaths = 8
    /\ Len(calls) = CallBound

\* The same end reached in every fair run of the loop; every step of Next changes the
\* position, the depth or the history.
progress == <<pc, depth, calls>>
LiveSpec == Spec /\ WF_progress(Next)
C5_Eventually == <>(pc \in Final)

\* C6: a circuit without branch nodes is simulated directly and that result returned;
\* the circuit is not split, no stack is built, and branch_state and
\* combine_measurements are never called.
C6_TrivialCircuit ==
    ChannelsOf(circuit.operations) = <<>> =>
        /\ stack = None
        /\ circuits = NoList
        /\ \A i \in 1..Len(calls) : calls[i].fn = "simulate"
        /\ Len(calls) <= 1
        /\ pc = "returned" => (result = simulate(circuit) /\ Len(calls) = 1)

C6_Witness ==
    /\ ChannelsOf(circuit.operations) = <<>>
    /\ pc = "returned"
    /\ result = simulate(circuit)
    /\ Len(circuit.operations) = 2

\* C7: when every outcome of a post-selected measurement has been tried on a state
\* that arrived with a non-zero norm, exactly one of the outcomes is not pruned,
\* whatever the natural probability of the forced outcome, and the probability
\* registered for that outcome is 1.0.
C7_PostselectOneChild ==
    (/\ TreeRun
     /\ pc = "while"
     /\ depth >= 1
     /\ IsPostselected(nodes[depth])
     /\ is_full(stack, depth)
     /\ ~ AllZero(stack.states[depth].norms))
    => LET kept == { i \in DOMAIN stack.results[depth] :
                       stack.results[depth][i] # PrunedMarker }
       IN /\ Cardinality(kept) = 1
          /\ \A i \in kept : stack.probs[depth].list[i] = Float(NormOne * NormOne)

\* The outcome index is the forced one: the value the driver gives it (line 151) is
\* the post-selected value.
MatchesForced(d, index) == index + mcm_value_modifiers[d] = nodes[d].postselect.int

\* C8: branch_state reports probability 0.0 for every outcome index of a post-selected
\* measurement that does not match the forced value, whatever the collapsed norm.
C8_NonMatchingIsZero ==
    \A i \in CallsOf("branch_state") :
       LET d == Len(calls[i].path)
       IN (/\ Returned(i)
           /\ IsPostselected(nodes[d])
           /\ ~ MatchesForced(d, calls[i].path[d]))
          => calls[i].ret = Float(0)

\* C9: when branch_state, get_final_state or measure_final_state raises, tree_simulate
\* raises that error: no result is returned, the call is not made again and no other
\* call follows it.
C9_ErrorsPropagate ==
    \A i \in 1..Len(calls) :
       (/\ IsError(calls[i].ret)
        /\ calls[i].fn \in {"branch_state", "get_final_state", "measure_final_state"})
       => /\ i = Len(calls)
          /\ pc = "raised"
          /\ error = calls[i].ret
          /\ result = None

C9_Witness ==
    /\ pc = "raised"
    /\ error = Raised("measure_final_state")
    /\ n_nodes >= 2
    /\ Cardinality(CallsOf("measure_final_state")) >= 2
    /\ \E d \in 1..n_nodes : \E b \in DOMAIN stack.results[d] : stack.results[d][b] # None

\* C10: a terminal measurement that is neither an expectation value nor a probability
\* is rejected by the combiner with an error naming its kind, so tree_simulate never
\* returns a result for a circuit with a branch node and such a measurement.
C10_UnsupportedRejected ==
    (TreeRun /\ Unsupported # {}) =>
        /\ result = None
        /\ pc # "returned"
        /\ \A j \in Unsupported :
             combine_measurements_core(terminal_measurements[j], <<>>, <<>>)
               = TypeError(terminal_measurements[j])
        /\ \A i \in CallsOf("combine_measurements") :
             \E j \in Unsupported : calls[i].ret = TypeError(terminal_measurements[j])

C10_Witness ==
    /\ pc = "raised"
    /\ TreeRun
    /\ n_nodes >= 2
    /\ depth = n_nodes
    /\ terminal_measurements = <<ExpectationMP, VarianceMP>>
    /\ error = TypeError(VarianceMP)
    /\ Cardinality(CallsOf("measure_final_state")) >= 1

\* C11: a circuit with a branch node that declares no outcome fails before any
\* segment is simulated and never returns a result.
C11_ZeroOutcomesRejected ==
    (TreeRun /\ \E d \in 1..n_nodes : n_kraus[d] = 0) =>
        /\ result = None
        /\ pc # "returned"
        /\ CallsOf("get_final_state") = {}
        /\ CallsOf("measure_final_state") = {}

\* C12: a branch whose probability branch_state computes as NaN or negative is pruned:
\* no probability is registered for it, its segment is not simulated, and no value
\* that is NaN or negative reaches the result returned.
C12_DegenerateIsPruned ==
    /\ \A i \in CallsOf("branch_state") :
         (Returned(i) /\ (IsNaN(calls[i].ret.float) \/ calls[i].ret.float < 0)) =>
            /\ \A j \in CallsOf("get_final_state") \cup CallsOf("measure_final_state") :
                 ~ IsPrefix(calls[i].path, calls[j].path)
            /\ (i = Len(calls) /\ pc \notin Final) =>
                 /\ pc = "while"
                 /\ stack.results[depth][calls[i].path[depth]] = PrunedMarker
                 /\ stack.probs[depth].list[calls[i].path[depth]] = None
    /\ (pc = "returned" /\ TreeRun) =>
         \A j \in 1..Len(terminal_measurements) :
            terminal_measurements[j] = ExpectationMP =>
               ~ (IsNaN(result.tuple[j].num) \/ result.tuple[j].num < 0)

\* The norm of the collapse asked for by the i-th call, a call of branch_state: the
\* norm get_final_state reported for that outcome when it returned the parent state.
NormAt(i) ==
    LET p == calls[i].path
        q == SubSeq(p, 1, Len(p) - 1)
        j == CHOOSE j \in CallsOf("get_final_state") : calls[j].path = q /\ Returned(j)
    IN calls[j].ret.norms[p[Len(p)]]
\* The calls of branch_state that returned, on a number, for a node without a forced
\* outcome.
Collapses ==
    { i \in CallsOf("branch_state") :
        /\ Returned(i)
        /\ ~ IsNaN(NormAt(i))
        /\ ~ IsPostselected(nodes[Len(calls[i].path)]) }

RECURSIVE Rejoin(_, _, _)
Rejoin(segs, nds, d) ==
    IF d = 0 THEN segs[0].operations
    ELSE Rejoin(segs, nds, d - 1) \o <<nds[d]>> \o segs[d].operations

\* C14: split_circuit_at_nodes returns n + 1 segments for a circuit with n branch
\* nodes: no segment holds a branch node, the segments joined with the branch nodes
\* between them are the original operations in their order, the last segment carries
\* the terminal measurements and no other segment carries any; the driver keeps the
\* segments as they were split, but for the state preparation put before segment 0.
C14_SplitRejoins ==
    LET segs == split_circuit_at_nodes(circuit)
        nds == NodesOf(circuit)
        n == Len(ChannelsOf(circuit.operations))
    IN /\ DOMAIN segs = 0..n
       /\ \A d \in 0..n : ChannelsOf(segs[d].operations) = <<>>
       /\ Rejoin(segs, nds, n) = circuit.operations
       /\ segs[n].measurements = circuit.measurements
       /\ \A d \in 0..(n - 1) : segs[d].measurements = <<>>
       /\ TreeRun =>
            /\ DOMAIN circuits = 0..n
            /\ \A d \in 1..n : circuits[d] = segs[d]
            /\ circuits[0] = prepend_state_prep(segs[0], None, "full")

C14_Witness ==
    /\ TreeRun
    /\ pc = "returned"
    /\ n_nodes = 3
    /\ \A d \in 1..n_nodes : Len(circuits[d].operations) = 2
    /\ Len(circuit.operations) = 11
    /\ circuits[3].measurements = <<ExpectationMP>>

\* C15: at every depth d >= 1 and whatever segment d holds, the circuit handed to
\* get_final_state is the segment behind a state preparation on all wires of the
\* collapsed state that branch_state returned for the current branch.
C15_SegmentFromParentState ==
    (pc = "get_final_state" /\ depth >= 1) =>
        /\ initial_state =
             branch_state(stack.states[depth], nodes[depth], branch_current[depth]).state
        /\ circtmp.operations =
             <<StatePrep(initial_state, "full")>> \o circuits[depth].operations
        /\ circtmp.measurements = circuits[depth].measurements

\* The outcomes of the level at depth d that are not pruned, and the sum over a set S
\* of outcomes of probs[i] * results[i][j], index by index.
KeptAt(d) == { i \in DOMAIN stack.results[d] : stack.results[d][i] # PrunedMarker }
RECURSIVE WeightedNum(_, _, _)
WeightedNum(d, j, S) ==
    IF S = {} THEN 0
    ELSE LET i == CHOOSE x \in S : TRUE
         IN Add(Mul(stack.probs[d].list[i].float, stack.results[d][i].tuple[j].num),
                WeightedNum(d, j, S \ {i}))
RECURSIVE WeightedVec(_, _, _)
WeightedVec(d, j, S) ==
    IF S = {} THEN [x \in 1..TotalPaths |-> 0]
    ELSE LET i == CHOOSE x \in S : TRUE
             r == WeightedVec(d, j, S \ {i})
         IN [x \in 1..TotalPaths |->
               Add(Mul(stack.probs[d].list[i].float, stack.results[d][i].tuple[j].vec[x]),
                   r[x])]
\* A level is complete and about to be combined.
CombineDue == TreeRun /\ pc = "while" /\ depth >= 1 /\ is_full(stack, depth)

\* C16: for the probs and results of a complete level, combine_measurements returns
\* for each expectation value or probability measurement j the sum over exactly the
\* outcomes i that are not pruned of probs[i] * results[i][j].
C16_WeightedSumOfKept ==
    (CombineDue /\ Unsupported = {}) =>
        LET r == combine_measurements(terminal_measurements, stack, depth)
        IN /\ ~ IsError(r)
           /\ \A j \in 1..Len(terminal_measurements) :
                r.tuple[j] = IF terminal_measurements[j] = ProbabilityMP
                             THEN Vec(WeightedVec(depth, j, KeptAt(depth)))
                             ELSE Num(WeightedNum(depth, j, KeptAt(depth)))

\* C17: a call of combine_measurements leaves the traversal state as it was:
\* stack.probs, stack.results, stack.states, the depth and the branch vector are the
\* same after the call as before it.
C17_CombineIsPure ==
    [][ (/\ Len(calls') = Len(calls) + 1
         /\ calls'[Len(calls')].fn = "combine_measurements")
        => /\ stack' = stack
           /\ depth' = depth
           /\ branch_current' = branch_current ]_vars

C17_Witness ==
    /\ pc = "combined"
    /\ depth = 2
    /\ calls[Len(calls)].fn = "combine_measurements"
    /\ measurements = calls[Len(calls)].ret
    /\ is_full(stack, depth)
    /\ KeptAt(depth) # {}
    /\ KeptAt(depth) # DOMAIN stack.results[depth]
    /\ stack.states[depth] # None
    /\ branch_current[1] = 1

\* The sum of the probabilities registered at depth d.
Registered(d) ==
    LET ps == stack.probs[d].list
    IN SumOver([i \in DOMAIN ps |-> IF ps[i] = None THEN 0 ELSE ps[i].float], DOMAIN ps)
\* The only branch node has no forced outcome, the state it is applied to is
\* normalized and its Kraus matrices are complete, and all its outcomes are resolved:
\* the final combination is due.
SingleNodeDue ==
    /\ TreeRun /\ ~ NaNRun
    /\ n_nodes = 1
    /\ ~ IsPostselected(nodes[1])
    /\ pc = "while"
    /\ ~ any_is_empty(stack, 1)
    /\ stack.states[1] # None
    /\ SumSq(stack.states[1].norms) = NormOne * NormOne

\* C18: for a circuit with one branch node of k outcomes and no post-selection,
\* started from a normalized state with a complete set of Kraus matrices, the
\* probabilities registered in probs[1] for the outcomes that are not pruned sum to 1,
\* within the tolerance, when the final combination is computed.
C18_ProbabilityConserved ==
    SingleNodeDue =>
        LET total == Registered(1)
            one == NormOne * NormOne
            tol == n_kraus[1] * NORM_TOL * NORM_TOL
        IN total - one < tol /\ one - total < tol

C18_Witness ==
    /\ SingleNodeDue
    /\ KeptAt(1) = DOMAIN stack.results[1]
    /\ n_kraus[1] = 2
    /\ stack.probs[1].list[0] # stack.probs[1].list[1]
    /\ Registered(1) = NormOne * NormOne

\* The outcome reached along the path p is resolved: its collapse had probability
\* 0.0, or it is a leaf and was measured, or it is not a leaf, each outcome of the
\* level below it is resolved and that level was combined.
RECURSIVE Resolved(_)
Resolved(p) ==
    \/ \E j \in CallsOf("branch_state") : calls[j].path = p /\ calls[j].ret = Float(0)
    \/ /\ Len(p) = n_nodes
       /\ \E j \in CallsOf("measure_final_state") : calls[j].path = p /\ Returned(j)
    \/ /\ Len(p) < n_nodes
       /\ \E j \in CallsOf("combine_measurements") : calls[j].path = p /\ Returned(j)
       /\ \A i \in 0..(n_kraus[Len(p) + 1] - 1) : Resolved(Append(p, i))

\* C19: at the head of every iteration of the loop, for every depth d from 1 to the
\* current depth, results[d][i] is set exactly when outcome i of the current visit to
\* the level is resolved: pruned for zero probability, or simulated down to the leaves
\* and, above the leaves, combined.
C19_SetIffResolved ==
    (TreeRun /\ pc = "while") =>
        \A d \in 1..depth : \A i \in DOMAIN stack.results[d] :
            stack.results[d][i] # None <=> Resolved(Append(Path(branch_current, d - 1), i))

C19_Witness ==
    /\ TreeRun /\ pc = "while"
    /\ depth = 2
    /\ n_nodes = 2
    /\ n_kraus[1] = 2 /\ n_kraus[2] = 2
    /\ branch_current[1] = 1
    /\ stack.results[1][0] # None /\ stack.results[1][0] # PrunedMarker
    /\ stack.results[1][1] = None
    /\ stack.results[2][0] = PrunedMarker
    /\ stack.results[2][1] = None

\* The collapses of the visit to the level below the outcome path q, and those of
\* them made before call j.
VisitCollapses(q) ==
    { j \in CallsOf("branch_state") :
        Len(calls[j].path) = Len(q) + 1 /\ IsPrefix(q, calls[j].path) }
EarlierCollapses(j) ==
    { i \in VisitCollapses(SubSeq(calls[j].path, 1, Len(calls[j].path) - 1)) : i < j }
\* The step changes branch_current[e] while a level below e is visited.
ParentAdvances(e) ==
    /\ TreeRun /\ depth > e
    /\ branch_current'[e] # branch_current[e]
\* The step stores the combination of level e + 1, all of whose outcomes are resolved.
StoresCombined(e) ==
    /\ pc = "combined" /\ depth = e + 1
    /\ is_full(stack, e + 1)
    /\ \E j \in CallsOf("combine_measurements") :
         /\ calls[j].path = Path(branch_current, e) /\ Returned(j)
         /\ Cardinality(VisitCollapses(calls[j].path)) = n_kraus[e + 1]
    /\ stack'.results[e][branch_current[e]] = measurements

\* C20: during one visit to the level at depth d, from the descent into it until its
\* combination, branch_current[d] takes each value 0..k[d]-1 exactly once, in
\* increasing order (the n-th outcome collapsed in the visit is outcome n - 1, and a
\* combined level had k[d] collapses), and branch_current[d-1] does not change until
\* all k[d] outcomes of level d are resolved and combined.
C20_EachOutcomeOnceInOrder ==
    /\ [](\A j \in CallsOf("branch_state") :
            /\ calls[j].path[Len(calls[j].path)] = Cardinality(EarlierCollapses(j))
            /\ Cardinality(EarlierCollapses(j)) < n_kraus[Len(calls[j].path)])
    /\ [](\A j \in CallsOf("combine_measurements") :
            Cardinality(VisitCollapses(calls[j].path)) = n_kraus[Len(calls[j].path) + 1])
    /\ [][\A e \in 1..(MaxNodes + 1) : ParentAdvances(e) => StoresCombined(e)]_vars

C20_Witness ==
    /\ TreeRun /\ pc = "while"
    /\ n_nodes = 2 /\ depth = 2
    /\ n_kraus[1] = 2 /\ n_kraus[2] = 2
    /\ branch_current[1] = 1
    /\ Cardinality(VisitCollapses(<<0>>)) = 2
    /\ Cardinality(VisitCollapses(<<1>>)) = 2
    /\ \E j \in CallsOf("combine_measurements") : calls[j].path = <<0>> /\ Returned(j)

\* The outcome of level d - 1 under which the current visit to level d was entered:
\* the last index of the path of the latest segment simulated at depth d - 1.
EnteredUnder(d) ==
    LET S == { j \in CallsOf("get_final_state") : Len(calls[j].path) = d - 1 }
        j == CHOOSE x \in S : \A y \in S : y <= x
    IN calls[j].path[d - 1]
\* The step that follows the combination of the complete level at the current depth.
LevelCompleted == TreeRun /\ pc = "combined" /\ depth >= 2

\* C21: when the level at depth d >= 2 is complete, the driver combines it, resets
\* level d and writes the combination into results[d-1][b], b being the value
\* branch_current[d-1] had when level d was entered; branch_current[d-1] is then
\* advanced to (b+1) mod k[d-1], and no result slot of another outcome or depth is
\* written in that step.
C21_CombinedStoredOneLevelUp ==
    [][LevelCompleted =>
         LET d == depth
             b == EnteredUnder(d)
         IN /\ is_full(stack, d)
            /\ measurements = combine_measurements(terminal_measurements, stack, d)
            /\ stack'.results[d] = Nones(n_kraus[d])
            /\ stack'.results[d - 1] = [stack.results[d - 1] EXCEPT ![b] = measurements]
            /\ \A e \in DOMAIN stack.results :
                 e \notin {d, d - 1} => stack'.results[e] = stack.results[e]
            /\ stack.results[d - 1][b] = None
            /\ branch_current[d - 1] = b
            /\ branch_current'[d - 1] = (b + 1) % n_kraus[d - 1]
            /\ depth' = d - 1]_vars

C21_Witness ==
    /\ TreeRun /\ pc = "while"
    /\ n_nodes = 3 /\ depth = 2
    /\ n_kraus[2] = 2 /\ branch_current[2] = 1
    /\ calls[Len(calls)].fn = "combine_measurements"
    /\ calls[Len(calls)].path = Path(branch_current, 1) \o <<0>>
    /\ stack.results[2][0] = calls[Len(calls)].ret
    /\ stack.results[2][1] = None
    /\ stack.results[3] = Nones(n_kraus[3])

\* A segment is being simulated: get_final_state is about to be called or has returned.
Simulating == TreeRun /\ pc \in {"get_final_state", "simulated"}
\* The value offset of the measurement node at depth i.
Offset(i) == IF nodes[i].postselect = None THEN 0 ELSE nodes[i].postselect.int
\* The state stored for depth j is the one get_final_state returned for the outcome
\* path branch_current[1..j-1].
StoredForCurrentPath(j) ==
    /\ stack.states[j] # None
    /\ \E c \in CallsOf("get_final_state") :
         /\ calls[c].path = Path(branch_current, j - 1)
         /\ Returned(c)
         /\ calls[c].ret.norms = stack.states[j].norms
    /\ ~ MidPrepRun => PathOf(stack.states[j]) = Path(branch_current, j - 1)
    /\ \A i \in DOMAIN stack.states[j].mid_measurements :
         i < j => stack.states[j].mid_measurements[i] = branch_current[i] + Offset(i)

\* C22: whenever a segment at depth d is simulated, stack.states[j] for every j from 1
\* to d is the state reached along the outcome path branch_current[1..j-1], and the
\* mid-measurement values passed to the simulation give, for every measurement node
\* i <= d, the outcome branch_current[i] of the current path plus the node's
\* post-selection offset; the entries of branch_current at depths greater than the
\* current depth are always 0.
C22_StatesFollowCurrentPath ==
    [](
      TreeRun =>
          /\ \A e \in DOMAIN branch_current : e > depth => branch_current[e] = 0
          /\ Simulating => \A j \in 1..depth : StoredForCurrentPath(j)
          /\ pc = "simulated" =>
               /\ DOMAIN state.mid_measurements = { i \in 1..n_nodes : IsMcm(nodes[i]) }
               /\ \A i \in DOMAIN state.mid_measurements :
                    i <= depth => state.mid_measurements[i] = branch_current[i] + Offset(i))

C22_Witness ==
    /\ TreeRun /\ pc = "simulated"
    /\ n_nodes = 2 /\ depth = 2
    /\ IsMcm(nodes[1]) /\ nodes[1].postselect = IntVal(1)
    /\ branch_current[1] = 1 /\ branch_current[2] = 1
    /\ state.mid_measurements[1] = 2
    /\ PathOf(stack.states[2]) = <<1>>
    /\ PathOf(state) = <<1, 1>>

\* branch_state reported a non-zero probability for every outcome along the path.
NonZeroAlong(p) ==
    \A d \in 1..Len(p) :
       \E j \in CallsOf("branch_state") :
          calls[j].path = SubSeq(p, 1, d) /\ Returned(j) /\ calls[j].ret # Float(0)
CallsOn(fn, p) == { j \in CallsOf(fn) : calls[j].path = p }
\* No outcome path has two calls of fn.
OncePerPath(fn) ==
    \A i, j \in CallsOf(fn) : calls[i].path = calls[j].path => i = j
\* The run is complete: the root segment was simulated, every outcome below a
\* simulated segment was collapsed, and every collapse of non-zero probability had its
\* segment simulated.
AllSimulated ==
    /\ CallsOn("get_final_state", <<>>) # {}
    /\ \A j \in CallsOf("get_final_state") :
         Len(calls[j].path) < n_nodes =>
            \A i \in 0..(n_kraus[Len(calls[j].path) + 1] - 1) :
               CallsOn("branch_state", Append(calls[j].path, i)) # {}
    /\ \A j \in CallsOf("branch_state") :
         calls[j].ret # Float(0) => CallsOn("get_final_state", calls[j].path) # {}

\* C23: every node of the outcome tree that is not pruned, internal or leaf, has its
\* segment simulated by get_final_state exactly once in a run, the root segment once
\* and the segment at depth d once for each outcome path of length d whose
\* probabilities are all non-zero, and no other segment is simulated; branch_state is
\* called exactly once for each outcome of each level visited, and for no other.
C23_SegmentsOnce ==
    [](
      TreeRun =>
          /\ OncePerPath("get_final_state")
          /\ OncePerPath("branch_state")
          /\ \A j \in CallsOf("get_final_state") : NonZeroAlong(calls[j].path)
          /\ \A j \in CallsOf("branch_state") :
               CallsOn("get_final_state",
                       SubSeq(calls[j].path, 1, Len(calls[j].path) - 1)) # {}
          /\ pc = "returned" => AllSimulated)

C23_Witness ==
    /\ TreeRun /\ pc = "returned"
    /\ n_nodes = 3
    /\ NonZeroAlong(<<0>>) /\ CallsOn("get_final_state", <<0, 1>>) # {}
    /\ CallsOn("branch_state", <<1>>) # {} /\ ~ NonZeroAlong(<<1>>)
    /\ CallsOn("branch_state", <<0, 0>>) # {} /\ ~ NonZeroAlong(<<0, 0>>)
    /\ CallsOn("get_final_state", <<0, 1, 0>>) # {}
    /\ CallsOn("branch_state", <<1, 0>>) = {}

\* The level the driver is about to combine: level 1 after the loop (line 233), the
\* complete level at the current depth inside it (line 162).
CombinedLevel == IF ~ any_is_empty(stack, 1) THEN 1 ELSE depth
CombineCallDue ==
    /\ TreeRun /\ pc = "while"
    /\ ~ any_is_empty(stack, 1) \/ (depth >= 1 /\ is_full(stack, depth))
\* The outcomes of level d with a probability registered.
RegisteredAt(d) == { i \in DOMAIN stack.probs[d].list : stack.probs[d].list[i] # None }

\* C24: at every call of combine_measurements made by the driver, in the loop and
\* after it, the outcome indices with a non-None entry in probs[depth] are the outcome
\* indices whose result is not the pruned marker, so that the two filtered lists have
\* the same length and pair up outcome by outcome, and every probability present was
\* registered in the current visit to the level.
C24_ProbsPairWithResults ==
    CombineCallDue =>
        LET d == CombinedLevel
        IN /\ stack.probs[d] # None
           /\ RegisteredAt(d) = KeptAt(d)
           /\ \A i \in KeptAt(d) :
                \E j \in CallsOf("branch_state") :
                   /\ calls[j].path = Append(Path(branch_current, d - 1), i)
                   /\ calls[j].ret = stack.probs[d].list[i]

\* The first iteration of the loop: nothing was collapsed or stored yet and at most the
\* root segment was simulated.
FirstIteration ==
    /\ pc \in {"while", "get_final_state", "simulated", "raised"}
    /\ CallsOf("branch_state") = {}
    /\ CallsOf("combine_measurements") = {}
    /\ \A j \in CallsOf("get_final_state") : calls[j].path = <<>>
    /\ Cardinality(CallsOf("get_final_state")) <= 1
    /\ stack = TreeTraversalStack(n_nodes + 1, n_kraus)
\* The loop condition of line 153 is false: the loop is left.
LoopExit == ~ any_is_empty(stack, 1) /\ pc \in {"while", "returned"}

\* C25: depth is 0 only during the first iteration of the loop; in every later state
\* 1 <= depth <= n, so that a complete level is never combined, reset or stepped up
\* from at depth 0 (the sentinels n_kraus[0] = None and results[0] = [None] are left
\* alone), and the loop exits with depth = 1.
C25_DepthZeroOnlyAtFirst ==
    TreeRun =>
        /\ depth \in 0..n_nodes
        /\ depth = 0 => FirstIteration
        /\ pc = "combined" => depth >= 2
        /\ stack.results[0] = Nones(1) /\ branch_current[0] = 0
        /\ LoopExit => depth = 1

\* Nothing is stored at depth d.
Clean(stk, d) ==
    /\ stk.results[d] = Nones(n_kraus[d])
    /\ stk.probs[d] = None
    /\ stk.states[d] = None

\* C26: at the head of every iteration of the loop every level deeper than the
\* current depth is clean (results all None, probs None, states None), and so every
\* descent into a level allocates its list of probabilities afresh.
C26_DeeperLevelsClean ==
    /\ [](TreeRun => \A d \in (depth + 1)..n_nodes : Clean(stack, d))
    /\ [][(TreeRun /\ depth' = depth + 1) =>
             /\ Clean(stack, depth')
             /\ stack'.probs[depth'] = List(Nones(n_kraus[depth']))
             /\ stack'.results[depth'] = Nones(n_kraus[depth'])]_vars

C26_Witness ==
    /\ TreeRun /\ pc = "while"
    /\ n_nodes = 3 /\ depth = 2
    /\ branch_current[1] = 1
    /\ Clean(stack, 3)
    /\ stack.probs[2] = List(Nones(n_kraus[2]))
    /\ n_kraus[2] = 2 /\ n_kraus[3] = 2
    /\ \E j \in CallsOf("measure_final_state") : calls[j].path = <<0, 1, 1>>

\* The step is the descent into depth d: the state just simulated is stored.
DescentInto(d) ==
    /\ pc = "simulated" /\ depth = d - 1 /\ depth' = d
    /\ stack.states[d] = None
    /\ stack'.states[d] = state
\* The step follows the combination of level d: the level is cleared.
ClearedAfterCombine(d) ==
    /\ pc = "combined" /\ depth = d /\ depth' = d - 1
    /\ stack'.states[d] = None
\* The collapse being simulated was made from the state stored for the level, which
\* is the one simulated for the parent path.
CollapsedFromStored ==
    /\ "normalized" \in DOMAIN initial_state
    /\ initial_state.normalized.collapsed = stack.states[depth]
    /\ initial_state.normalized.index = branch_current[depth]
    /\ \E j \in CallsOf("get_final_state") :
         /\ calls[j].path = Path(branch_current, depth - 1)
         /\ calls[j].ret.norms = stack.states[depth].norms

\* C27: stack.states[d] is written only on descent into depth d and cleared only when
\* level d is combined; between the two it is unchanged by collapses, prunings, leaf
\* evaluations and deeper traversal, so that every sibling outcome of level d is
\* collapsed from the same parent state.
C27_StateKeptForSiblings ==
    /\ [][TreeRun =>
            \A d \in DOMAIN stack.states :
               stack'.states[d] # stack.states[d] => DescentInto(d) \/ ClearedAfterCombine(d)]_vars
    /\ []((TreeRun /\ pc = "get_final_state" /\ depth >= 1) => CollapsedFromStored)

C27_Witness ==
    /\ TreeRun /\ pc = "get_final_state"
    /\ n_nodes = 2 /\ depth = 1
    /\ branch_current[1] = 1
    /\ CollapsedFromStored
    /\ \E j \in CallsOf("measure_final_state") : calls[j].path = <<0, 1>>
    /\ \E j \in CallsOf("branch_state") : calls[j].path = <<0, 0>> /\ calls[j].ret = Float(0)

\* Every outcome of the complete level at the current depth, d >= 2, was pruned.
AllPrunedBelow ==
    /\ depth >= 2
    /\ n_kraus[depth] >= 1
    /\ is_full(stack, depth)
    /\ KeptAt(depth) = {}

\* C28: pruning never propagates upward. When every outcome of the level at depth
\* d >= 2 is pruned, the combination of the level is still computed (the empty
\* weighted sum, 0 for an expectation value) and the slot results[d-1][b] of the
\* parent receives it, a result tuple that is not the pruned marker and that has its
\* probability probs[d-1][b] registered like any other result.
C28_PruningStaysLocal ==
    /\ []((TreeRun /\ pc = "while" /\ AllPrunedBelow /\ Unsupported = {}) =>
            ~ IsError(combine_measurements(terminal_measurements, stack, depth)))
    /\ [][(TreeRun /\ pc = "combined" /\ AllPrunedBelow) =>
            LET b == branch_current[depth - 1]
                r == stack'.results[depth - 1][b]
            IN /\ r # None /\ r # PrunedMarker
               /\ stack'.probs[depth - 1].list[b] # None
               /\ \A j \in 1..Len(terminal_measurements) :
                    terminal_measurements[j] = ExpectationMP => r.tuple[j] = Num(0)]_vars

\* The number of state preparations a list of operations starts with.
RECURSIVE LeadingPreps(_)
LeadingPreps(ops) ==
    IF ops = <<>> \/ ~ IsStatePrep(Head(ops)) THEN 0 ELSE 1 + LeadingPreps(Tail(ops))
\* The states handed to prepend_state_prep: none, and the ones of the run.
PrependStates == {None, ZeroState, initial_state, state}
\* The circuits prepend_state_prep is applied to: the segments as split (line 138),
\* before the run keeps them, and the segment kept for the current depth (line 195).
PrependCircuits ==
    IF pc = "entry"
    THEN LET segs == split_circuit_at_nodes(circuit) IN { segs[d] : d \in DOMAIN segs }
    ELSE IF TreeRun THEN {circuits[depth]} ELSE {}
StartsWith(c, w) ==
    /\ Len(c.operations) > 0
    /\ IsStatePrep(c.operations[1])
    /\ c.operations[1].width = w
\* once is what prepend_state_prep made of the circuit c and the state s.
PrependedWell(c, s, once) ==
    /\ \A s2 \in PrependStates : prepend_state_prep(once, s2, "full") = once
    /\ StartsWith(c, "full") => once = c
    /\ StartsWith(c, "partial") =>
         once.operations = <<StatePrep([extended |-> c.operations[1].state], "full")>>
                             \o Tail(c.operations)
    /\ LeadingPreps(c.operations) = 0 =>
         once.operations = <<StatePrep(IF s = None THEN ZeroState ELSE s, "full")>>
                             \o c.operations
    /\ StartsWith(once, "full")
    /\ LeadingPreps(once.operations) = 1
    /\ once.measurements = c.measurements

PrunedAt(stk, d, pruned) ==
    /\ pruned.results[d] = Nones(n_kraus[d])
    /\ DOMAIN pruned.results[d] = 0..(n_kraus[d] - 1)
    /\ pruned.probs[d] = None
    /\ pruned.states[d] = None
    /\ pruned.n_branches = stk.n_branches
    /\ DOMAIN pruned.results = DOMAIN stk.results
    /\ \A e \in DOMAIN stk.results :
         e # d => /\ pruned.results[e] = stk.results[e]
                  /\ pruned.probs[e] = stk.probs[e]
                  /\ pruned.states[e] = stk.states[e]

\* C30: for every depth d >= 1, TreeTraversalStack.prune(d) leaves results[d] a list
\* of exactly k[d] None entries, probs[d] None and states[d] None, and changes nothing
\* at any other depth nor n_branches; results[d] has length k[d] in every reachable
\* state.
C30_PruneResetsOneLevel ==
    [](
      TreeRun =>
          /\ \A d \in 1..n_nodes : PrunedAt(stack, d, prune(stack, d))
          /\ \A d \in 1..n_nodes : DOMAIN stack.results[d] = 0..(n_kraus[d] - 1)
          /\ stack.n_branches = n_kraus)

C30_Witness ==
    /\ TreeRun /\ pc = "while"
    /\ n_nodes = 3 /\ depth = 2
    /\ n_kraus[3] = 2
    /\ calls[Len(calls)].fn = "combine_measurements"
    /\ Len(calls[Len(calls)].path) = 2
    /\ \E j \in CallsOf("measure_final_state") :
         calls[j].path = Append(calls[Len(calls)].path, 1)
    /\ Clean(stack, 3)
    /\ DOMAIN stack.results[3] = 0..1
    /\ stack.probs[2] # None /\ stack.states[2] # None
    /\ stack.results[2][calls[Len(calls)].path[2]] = calls[Len(calls)].ret

=============================================================================
